---- MODULE Spec2Model ----
(***************************************************************************)
(* StickerStudio: the request orchestration of services/geminiService.ts   *)
(* (callGemini, retryOperation and the exported operations built on them), *)
(* the settings store of services/storage.ts and the key modal that writes *)
(* it.                                                                     *)
(*                                                                         *)
(* An error message is modelled by the set of the substrings, among those  *)
(* the code looks for, that it contains; String.includes is membership.    *)
(* The settings store is IndexedDB: a transaction created later on the     *)
(* same store observes every write requested earlier, so a write takes     *)
(* effect, for every later reader, at the step that requests it.           *)
(***************************************************************************)
EXTENDS Integers, Sequences, FiniteSets, TLC

\* ---------------------------------------------------------------- bounds
MaxCount == 6           \* cap of the stored free_generations_count
NumIncrementers == 2    \* concurrent incrementFreeImageCount callers

\* ------------------------------------------------------------- constants
FREE_LIMIT == 5
DEFAULT_RETRIES == 2
DEFAULT_DELAY == 1000

Procs == {"p1"}
Incs == 1..NumIncrementers
NoKey == "null"
Keys == {"k1"}
Kinds == {"create", "edit", "detect", "analyze", "enhance"}

ERROR_API_KEY_REQUIRED == {"API_KEY_REQUIRED"}
ERROR_API_KEY_INVALID == {"API_KEY_INVALID"}

\* the messages the external service fails with
ErrMsgs ==
  { {}, {"400"}, {"403"}, {"404"}, {"not found"}, {"API key"},
    {"PERMISSION_DENIED"}, {"API_KEY_INVALID"} }

\* what a successful response carries
Payloads == {"data", "empty"}

Includes(msg, sub) == sub \in msg

None == [tag |-> "none", payload |-> "", msg |-> {}, origin |-> ""]
Ok(pl) == [tag |-> "ok", payload |-> pl, msg |-> {}, origin |-> ""]
Err(m, o) == [tag |-> "err", payload |-> "", msg |-> m, origin |-> o]

VARIABLES
  userKey,      \* settings['user_api_key'], NoKey when absent
  freeCount,    \* settings['free_generations_count']
  deviceKey,    \* whether the build carries a developer key (.env)
  pc,           \* position of each exported-operation invocation
  kind,         \* which exported operation it is
  aiKey,        \* the apiKey its GoogleGenAI client was built with
  retries,      \* retryOperation's parameter of the current attempt
  delay,        \* retryOperation's parameter of the current attempt
  calls,        \* how many times operation(ai) has been invoked
  waits,        \* the setTimeout delays waited so far
  errs,         \* the errors of the failed attempts, in order
  cgResult,     \* what callGemini returned or threw
  opResult,     \* what the exported operation returned or threw
  mat,          \* how removeSmartBackground's image event ended
  incPc,        \* position of each incrementFreeImageCount call
  incRead,      \* the count that call read
  modalPc,      \* ApiKeyModal.handleSave position
  modalKey      \* the key being validated / saved

\* removeSmartBackground's onload handler, pixel by pixel
VARIABLES
  matPc,        \* position inside the handler
  matRun,       \* 1 for the first call on an image, 2 for the call repeated
  matInput,     \* the decoded pixels of base64Image, as drawn on the canvas
  matFirstOut,  \* the pixels the first call produced
  width,        \* canvas.width
  height,       \* canvas.height
  data,         \* imageData.data, one [r, g, b, a] per pixel
  visited,      \* Uint8Array(totalPixels)
  queue,        \* Int32Array(totalPixels)
  head,
  tail

matVars == <<matPc, matRun, matInput, matFirstOut, width, height, data,
             visited, queue, head, tail>>

\* convertToWhatsAppFormat, one call
VARIABLES
  expPc,        \* "idle", "loading", "encoding", "resolved", "rejected"
  expQuality,   \* the argument of the pending attemptConversion
  expBlobs,     \* what canvas.toBlob handed to its callback, in order
  expResult     \* how the returned promise settled

expVars == <<expPc, expQuality, expBlobs, expResult>>

\* processImage, one call
VARIABLES
  imgPc,        \* "idle", "loading", "resolved", "rejected"
  imgW,         \* img.width
  imgH,         \* img.height
  canvasW,      \* canvas.width
  canvasH,      \* canvas.height
  objectUrl,    \* "none", "live" (created, not revoked), "revoked"
  imgResult     \* "none", "data", "Canvas context missing", "error event"

imgVars == <<imgPc, imgW, imgH, canvasW, canvasH, objectUrl, imgResult>>

\* validateUserKey, one call
VARIABLES
  valPc,        \* "idle", "called", "settled"
  valKey,       \* the key under test
  valOutcome,   \* what the SDK did with it
  valResult     \* "none", "true", "false", "threw"

valVars == <<valPc, valKey, valOutcome, valResult>>

\* the StickerMaker view: React state, and one record per running handler
VARIABLES
  hgPc,             \* per run: "idle", "enhance", "process", "generate", "edit", "hung"
  hgKind,           \* per run: "generate" (handleGenerate) or "edit" (handleEdit)
  hgPrompt,         \* per run: prompt.trim() is not empty
  hgImage,          \* per run: selectedImage is set
  hgLog,            \* per run: the errors callGemini has thrown in this run
  isLoading,
  showKeyModal,
  keyModalReason,   \* "quota", "invalid", "missing"
  uiError,          \* "null" or the text shown
  generatedSticker, \* generatedSticker is not null
  isEditing,
  quotaUsed

makerVars == <<hgPc, hgKind, hgPrompt, hgImage, hgLog, isLoading, showKeyModal,
               keyModalReason, uiError, generatedSticker, isEditing, quotaUsed>>

\* the state of the helpers, which the orchestration never touches
subVars == <<matVars, expVars, imgVars, valVars, makerVars>>

storeVars == <<userKey, freeCount, deviceKey>>
callVars == <<pc, kind, aiKey, retries, delay, calls, waits, errs, cgResult, opResult, mat>>
incVars == <<incPc, incRead>>
modalVars == <<modalPc, modalKey>>
orchVars == <<storeVars, callVars, incVars, modalVars>>
\* what a step of one helper leaves alone
notMat == <<orchVars, expVars, imgVars, valVars, makerVars>>
notExp == <<orchVars, matVars, imgVars, valVars, makerVars>>
notImg == <<orchVars, matVars, expVars, valVars, makerVars>>
notVal == <<callVars, matVars, expVars, imgVars, makerVars>>
notMaker == <<freeCount, deviceKey, callVars, incVars, modalVars,
              matVars, expVars, imgVars, valVars>>
vars == <<userKey, freeCount, deviceKey, pc, kind, aiKey, retries, delay,
          calls, waits, errs, cgResult, opResult, mat, incPc, incRead,
          modalPc, modalKey, subVars>>

\* ------------------------------------------------------ error classifiers
IsClientError_no404(msg) ==
  \/ Includes(msg, "not found")
  \/ Includes(msg, "Requested entity was not found")
  \/ Includes(msg, "403")
  \/ Includes(msg, "400")
  \/ Includes(msg, "API key")

\* retryOperation: "Don't retry on client errors"
IsClientError(msg) ==
  \/ Includes(msg, "404")
  \/ Includes(msg, "not found")
  \/ Includes(msg, "Requested entity was not found")
  \/ Includes(msg, "403")
  \/ Includes(msg, "400")
  \/ Includes(msg, "API key")

IsAuthError_noPermissionDenied(msg) ==
  \/ Includes(msg, "API key not valid")
  \/ Includes(msg, "API_KEY_INVALID")
  \/ Includes(msg, "403")
  \/ Includes(msg, "API key")

\* callGemini: "Check for API key errors"
IsAuthError(msg) ==
  \/ Includes(msg, "API key not valid")
  \/ Includes(msg, "API_KEY_INVALID")
  \/ Includes(msg, "403")
  \/ Includes(msg, "API key")
  \/ Includes(msg, "PERMISSION_DENIED")

RetryGivesUp_oneRetry(msg, r) == IsClientError(msg) \/ r <= 1

RetryGivesUp_oneMore(msg, r) == IsClientError(msg) \/ r < 0

\* retryOperation's catch: rethrow now, or wait and recurse
RetryGivesUp(msg, r) == IsClientError(msg) \/ r <= 0

\* --------------------------------------------- the exported operations
\* what the operation of kind k does with an error thrown by callGemini
WrapError(k, e) ==
  CASE k = "create"  -> e
    [] k = "edit"    -> e
    [] k = "analyze" -> e
    [] k = "detect"  -> Ok("")
    [] k = "enhance" -> Ok("userPrompt")

\* what it does with a response that needs no post-processing
WrapResponse(k, pl) ==
  CASE k = "create"  -> Err({"No sticker generated."}, "generateSticker")
    [] k = "edit"    -> Err({"Failed to edit sticker."}, "editSticker")
    [] k = "detect"  -> IF pl = "data" THEN Ok("text") ELSE Ok("")
    [] k = "analyze" -> IF pl = "data" THEN Ok("text") ELSE Ok("No analysis generated.")
    [] k = "enhance" -> IF pl = "data" THEN Ok("text") ELSE Ok("userPrompt")

\* create and edit hand a returned image to removeSmartBackground
NeedsMatting(k, pl) == k \in {"create", "edit"} /\ pl = "data"

\* ------------------------------------------------------------------ Init
\* no image is being processed
MatIdle ==
  /\ matPc = "idle"
  /\ matRun = 0
  /\ matInput = <<>>
  /\ matFirstOut = <<>>
  /\ width = 0
  /\ height = 0
  /\ data = <<>>
  /\ visited = <<>>
  /\ queue = <<>>
  /\ head = 0
  /\ tail = 0

\* 0.1 * k + e * 2^-56 / 10, the form in which a quality value is kept
Q(k, e) == [k |-> k, e |-> e]
NoBlob == [null |-> TRUE, size |-> 0, quality |-> Q(0, 0)]
Unsettled == [tag |-> "none", blob |-> NoBlob, msg |-> ""]

ExpIdle ==
  /\ expPc = "idle"
  /\ expQuality = Q(0, 0)
  /\ expBlobs = <<>>
  /\ expResult = Unsettled

ImgIdle ==
  /\ imgPc = "idle"
  /\ imgW = 0
  /\ imgH = 0
  /\ canvasW = 0
  /\ canvasH = 0
  /\ objectUrl = "none"
  /\ imgResult = "none"

ValIdle ==
  /\ valPc = "idle"
  /\ valKey = NoKey
  /\ valOutcome = "none"
  /\ valResult = "none"

\* handler invocations that may overlap
Runs == {"r1", "r2"}

\* StickerMaker as mounted: the useState initial values
MakerIdle ==
  /\ hgPc = [r \in Runs |-> "idle"]
  /\ hgKind = [r \in Runs |-> "generate"]
  /\ hgPrompt = [r \in Runs |-> FALSE]
  /\ hgImage = [r \in Runs |-> FALSE]
  /\ hgLog = [r \in Runs |-> {}]
  /\ isLoading = FALSE
  /\ showKeyModal = FALSE
  /\ keyModalReason = "quota"
  /\ uiError = "null"
  /\ generatedSticker = FALSE
  /\ isEditing = FALSE
  /\ quotaUsed = freeCount     \* the refreshQuota effect of the mount

SubIdle == MatIdle /\ ExpIdle /\ ImgIdle /\ ValIdle /\ MakerIdle

\* no exported operation, increment or modal action in flight
CallIdle ==
  /\ pc = [p \in Procs |-> "idle"]
  /\ kind = [p \in Procs |-> "create"]
  /\ aiKey = [p \in Procs |-> NoKey]
  /\ retries = [p \in Procs |-> DEFAULT_RETRIES]
  /\ delay = [p \in Procs |-> DEFAULT_DELAY]
  /\ calls = [p \in Procs |-> 0]
  /\ waits = [p \in Procs |-> <<>>]
  /\ errs = [p \in Procs |-> <<>>]
  /\ cgResult = [p \in Procs |-> None]
  /\ opResult = [p \in Procs |-> None]
  /\ mat = [p \in Procs |-> "none"]
  /\ incPc = [i \in Incs |-> "idle"]
  /\ incRead = [i \in Incs |-> 0]
  /\ modalPc = "idle"
  /\ modalKey = NoKey

\* a fresh install: empty settings store, nothing in flight
OrchInit ==
  /\ userKey = NoKey
  /\ freeCount = 0
  /\ deviceKey \in BOOLEAN
  /\ CallIdle

Init == OrchInit /\ SubIdle

\* ------------------------------------------------------------ callGemini
\* an exported operation is called; callGemini awaits getUserApiKey()
Start(p, k) ==
  /\ pc[p] = "idle"
  /\ pc' = [pc EXCEPT ![p] = "getKey"]
  /\ kind' = [kind EXCEPT ![p] = k]
  /\ UNCHANGED <<aiKey, retries, delay, calls, waits, errs, cgResult, opResult, mat>>
  /\ UNCHANGED <<storeVars, incVars, modalVars>>
  /\ UNCHANGED subVars

\* a free tier that forgets its limit: the developer key serves any count
SelectCredential_noLimit(p) ==
  /\ pc[p] = "getKey"
  /\ IF userKey = NoKey /\ ~deviceKey
       THEN /\ cgResult' = [cgResult EXCEPT ![p] = Err(ERROR_API_KEY_REQUIRED, "callGemini")]
            /\ opResult' = [opResult EXCEPT ![p] =
                              WrapError(kind[p], Err(ERROR_API_KEY_REQUIRED, "callGemini"))]
            /\ pc' = [pc EXCEPT ![p] = "done"]
            /\ UNCHANGED <<aiKey, retries, delay>>
       ELSE /\ aiKey' = [aiKey EXCEPT ![p] = userKey]
            /\ retries' = [retries EXCEPT ![p] = DEFAULT_RETRIES]
            /\ delay' = [delay EXCEPT ![p] = DEFAULT_DELAY]
            /\ pc' = [pc EXCEPT ![p] = "attempt"]
            /\ UNCHANGED <<cgResult, opResult>>
  /\ UNCHANGED <<kind, calls, waits, errs, mat>>
  /\ UNCHANGED <<storeVars, incVars, modalVars>>
  /\ UNCHANGED subVars

\* the quota checked before the stored key
SelectCredential_quotaFirst(p) ==
  /\ pc[p] = "getKey"
  /\ IF userKey = NoKey \/ freeCount >= FREE_LIMIT
       THEN /\ cgResult' = [cgResult EXCEPT ![p] = Err(ERROR_API_KEY_REQUIRED, "callGemini")]
            /\ opResult' = [opResult EXCEPT ![p] =
                              WrapError(kind[p], Err(ERROR_API_KEY_REQUIRED, "callGemini"))]
            /\ pc' = [pc EXCEPT ![p] = "done"]
            /\ UNCHANGED <<aiKey, retries, delay>>
       ELSE /\ aiKey' = [aiKey EXCEPT ![p] = userKey]
            /\ retries' = [retries EXCEPT ![p] = DEFAULT_RETRIES]
            /\ delay' = [delay EXCEPT ![p] = DEFAULT_DELAY]
            /\ pc' = [pc EXCEPT ![p] = "attempt"]
            /\ UNCHANGED <<cgResult, opResult>>
  /\ UNCHANGED <<kind, calls, waits, errs, mat>>
  /\ UNCHANGED <<storeVars, incVars, modalVars>>
  /\ UNCHANGED subVars

\* getUserApiKey() resolves: no key -> API_KEY_REQUIRED, else build the client
\* and enter retryOperation with its default parameters
SelectCredential(p) ==
  /\ pc[p] = "getKey"
  /\ IF userKey = NoKey
       THEN /\ cgResult' = [cgResult EXCEPT ![p] = Err(ERROR_API_KEY_REQUIRED, "callGemini")]
            /\ opResult' = [opResult EXCEPT ![p] =
                              WrapError(kind[p], Err(ERROR_API_KEY_REQUIRED, "callGemini"))]
            /\ pc' = [pc EXCEPT ![p] = "done"]
            /\ UNCHANGED <<aiKey, retries, delay>>
       ELSE /\ aiKey' = [aiKey EXCEPT ![p] = userKey]
            /\ retries' = [retries EXCEPT ![p] = DEFAULT_RETRIES]
            /\ delay' = [delay EXCEPT ![p] = DEFAULT_DELAY]
            /\ pc' = [pc EXCEPT ![p] = "attempt"]
            /\ UNCHANGED <<cgResult, opResult>>
  /\ UNCHANGED <<kind, calls, waits, errs, mat>>
  /\ UNCHANGED <<storeVars, incVars, modalVars>>
  /\ UNCHANGED subVars

\* every success of a keyed call counted against the free quota
AttemptOk_counted(p, pl) ==
  /\ pc[p] = "attempt"
  /\ calls' = [calls EXCEPT ![p] = @ + 1]
  /\ cgResult' = [cgResult EXCEPT ![p] = Ok(pl)]
  /\ IF NeedsMatting(kind[p], pl)
       THEN /\ pc' = [pc EXCEPT ![p] = "matting"]
            /\ UNCHANGED opResult
       ELSE /\ pc' = [pc EXCEPT ![p] = "done"]
            /\ opResult' = [opResult EXCEPT ![p] = WrapResponse(kind[p], pl)]
  /\ freeCount' = IF freeCount < MaxCount THEN freeCount + 1 ELSE freeCount
  /\ UNCHANGED <<kind, aiKey, retries, delay, waits, errs, mat>>
  /\ UNCHANGED <<userKey, deviceKey, incVars, modalVars>>
  /\ UNCHANGED subVars

\* operation(ai) resolves: retryOperation and callGemini return the response
AttemptOk(p, pl) ==
  /\ pc[p] = "attempt"
  /\ calls' = [calls EXCEPT ![p] = @ + 1]
  /\ cgResult' = [cgResult EXCEPT ![p] = Ok(pl)]
  /\ IF NeedsMatting(kind[p], pl)
       THEN /\ pc' = [pc EXCEPT ![p] = "matting"]
            /\ UNCHANGED opResult
       ELSE /\ pc' = [pc EXCEPT ![p] = "done"]
            /\ opResult' = [opResult EXCEPT ![p] = WrapResponse(kind[p], pl)]
  /\ UNCHANGED <<kind, aiKey, retries, delay, waits, errs, mat>>
  /\ UNCHANGED <<storeVars, incVars, modalVars>>
  /\ UNCHANGED subVars

\* the first error kept and surfaced instead of the last
AttemptFail_firstError(p, m) ==
  /\ pc[p] = "attempt"
  /\ calls' = [calls EXCEPT ![p] = @ + 1]
  /\ errs' = [errs EXCEPT ![p] = Append(@, m)]
  /\ IF RetryGivesUp(m, retries[p])
       THEN IF IsAuthError(m)
              THEN /\ pc' = [pc EXCEPT ![p] = "clearing"]
                   /\ UNCHANGED <<cgResult, opResult>>
              ELSE /\ pc' = [pc EXCEPT ![p] = "done"]
                   /\ cgResult' = [cgResult EXCEPT ![p] = Err(errs'[p][1], "service")]
                   /\ opResult' = [opResult EXCEPT ![p] =
                                     WrapError(kind[p], Err(errs'[p][1], "service"))]
       ELSE /\ pc' = [pc EXCEPT ![p] = "backoff"]
            /\ UNCHANGED <<cgResult, opResult>>
  /\ UNCHANGED <<kind, aiKey, retries, delay, waits, mat>>
  /\ UNCHANGED <<storeVars, incVars, modalVars>>
  /\ UNCHANGED subVars

\* every rethrown error treated as an API key error
AttemptFail_clearsOnAny(p, m) ==
  /\ pc[p] = "attempt"
  /\ calls' = [calls EXCEPT ![p] = @ + 1]
  /\ errs' = [errs EXCEPT ![p] = Append(@, m)]
  /\ IF RetryGivesUp(m, retries[p])
       THEN pc' = [pc EXCEPT ![p] = "clearing"]
       ELSE pc' = [pc EXCEPT ![p] = "backoff"]
  /\ UNCHANGED <<cgResult, opResult>>
  /\ UNCHANGED <<kind, aiKey, retries, delay, waits, mat>>
  /\ UNCHANGED <<storeVars, incVars, modalVars>>
  /\ UNCHANGED subVars

\* operation(ai) rejects with message m: retryOperation's catch, and when it
\* rethrows, callGemini's catch up to its await of clearUserApiKey()
AttemptFail(p, m) ==
  /\ pc[p] = "attempt"
  /\ calls' = [calls EXCEPT ![p] = @ + 1]
  /\ errs' = [errs EXCEPT ![p] = Append(@, m)]
  /\ IF RetryGivesUp(m, retries[p])
       THEN IF IsAuthError(m)
              THEN /\ pc' = [pc EXCEPT ![p] = "clearing"]
                   /\ UNCHANGED <<cgResult, opResult>>
              ELSE /\ pc' = [pc EXCEPT ![p] = "done"]
                   /\ cgResult' = [cgResult EXCEPT ![p] = Err(m, "service")]
                   /\ opResult' = [opResult EXCEPT ![p] = WrapError(kind[p], Err(m, "service"))]
       ELSE /\ pc' = [pc EXCEPT ![p] = "backoff"]
            /\ UNCHANGED <<cgResult, opResult>>
  /\ UNCHANGED <<kind, aiKey, retries, delay, waits, mat>>
  /\ UNCHANGED <<storeVars, incVars, modalVars>>
  /\ UNCHANGED subVars

\* the setTimeout of `delay` ms fires: recurse with retries - 1, delay * 2
Backoff(p) ==
  /\ pc[p] = "backoff"
  /\ waits' = [waits EXCEPT ![p] = Append(@, delay[p])]
  /\ retries' = [retries EXCEPT ![p] = @ - 1]
  /\ delay' = [delay EXCEPT ![p] = @ * 2]
  /\ pc' = [pc EXCEPT ![p] = "attempt"]
  /\ UNCHANGED <<kind, aiKey, calls, errs, cgResult, opResult, mat>>
  /\ UNCHANGED <<storeVars, incVars, modalVars>>
  /\ UNCHANGED subVars

\* clearUserApiKey() requests the delete and resolves; callGemini throws
\* new Error(API_KEY_INVALID)
ClearAndThrow(p) ==
  /\ pc[p] = "clearing"
  /\ userKey' = NoKey
  /\ cgResult' = [cgResult EXCEPT ![p] = Err(ERROR_API_KEY_INVALID, "callGemini")]
  /\ opResult' = [opResult EXCEPT ![p] =
                    WrapError(kind[p], Err(ERROR_API_KEY_INVALID, "callGemini"))]
  /\ pc' = [pc EXCEPT ![p] = "done"]
  /\ UNCHANGED <<kind, aiKey, retries, delay, calls, waits, errs, mat>>
  /\ UNCHANGED <<freeCount, deviceKey, incVars, modalVars>>
  /\ UNCHANGED subVars

\* ------------------------------------------------- removeSmartBackground
\* the Image given the returned data URL settles.  outcome:
\*   "onerror"  the image does not decode: resolve(base64Image)
\*   "noctx"    getContext('2d') is null:  resolve(base64Image)
\*   "throws"   drawImage/getImageData/the passes throw inside onload: the
\*              handler exits by the exception, resolve is never called
\*   "matted"   resolve(canvas.toDataURL('image/png'))
MattingOutcomes == {"onerror", "noctx", "throws", "matted"}

removeSmartBackground(p, outcome) ==
  /\ pc[p] = "matting"
  /\ mat' = [mat EXCEPT ![p] = outcome]
  /\ IF outcome = "throws"
       THEN /\ pc' = [pc EXCEPT ![p] = "hung"]
            /\ UNCHANGED opResult
       ELSE /\ pc' = [pc EXCEPT ![p] = "done"]
            /\ opResult' = [opResult EXCEPT ![p] =
                              IF outcome = "matted" THEN Ok("matted") ELSE Ok("original")]
  /\ UNCHANGED <<kind, aiKey, retries, delay, calls, waits, errs, cgResult>>
  /\ UNCHANGED <<storeVars, incVars, modalVars>>
  /\ UNCHANGED subVars

\* the caller has taken the result; the next invocation may start
Return(p) ==
  /\ pc[p] = "done"
  /\ pc' = [pc EXCEPT ![p] = "idle"]
  /\ aiKey' = [aiKey EXCEPT ![p] = NoKey]
  /\ retries' = [retries EXCEPT ![p] = DEFAULT_RETRIES]
  /\ delay' = [delay EXCEPT ![p] = DEFAULT_DELAY]
  /\ calls' = [calls EXCEPT ![p] = 0]
  /\ waits' = [waits EXCEPT ![p] = <<>>]
  /\ errs' = [errs EXCEPT ![p] = <<>>]
  /\ cgResult' = [cgResult EXCEPT ![p] = None]
  /\ opResult' = [opResult EXCEPT ![p] = None]
  /\ mat' = [mat EXCEPT ![p] = "none"]
  /\ kind' = [kind EXCEPT ![p] = "create"]
  /\ UNCHANGED <<storeVars, incVars, modalVars>>
  /\ UNCHANGED subVars

\* ------------------------------------------------------------ storage.ts
\* incrementFreeImageCount: const current = await getFreeImageCount()
IncRead(i) ==
  /\ incPc[i] = "idle"
  /\ freeCount < MaxCount
  /\ incPc' = [incPc EXCEPT ![i] = "read"]
  /\ incRead' = [incRead EXCEPT ![i] = freeCount]
  /\ UNCHANGED <<storeVars, callVars, modalVars>>
  /\ UNCHANGED subVars

\* the value read written back without the increment
IncWrite_noIncrement(i) ==
  /\ incPc[i] = "read"
  /\ freeCount' = incRead[i]
  /\ incPc' = [incPc EXCEPT ![i] = "idle"]
  /\ incRead' = [incRead EXCEPT ![i] = 0]
  /\ UNCHANGED <<userKey, deviceKey, callVars, modalVars>>
  /\ UNCHANGED subVars

\* incrementFreeImageCount: await saveSetting(..., current + 1)
IncWrite(i) ==
  /\ incPc[i] = "read"
  /\ freeCount' = incRead[i] + 1
  /\ incPc' = [incPc EXCEPT ![i] = "idle"]
  /\ incRead' = [incRead EXCEPT ![i] = 0]
  /\ UNCHANGED <<userKey, deviceKey, callVars, modalVars>>
  /\ UNCHANGED subVars

\* a caller that serializes its increments, as a store without atomic
\* increment requires: a call starts only when no other call is in flight
SerialIncRead(i) ==
  /\ \A j \in Incs : incPc[j] = "idle"
  /\ IncRead(i)

\* ----------------------------------------------------------- ApiKeyModal
\* what the SDK does with the key under test
SdkOutcomes == {"ok", "constructor throws", "countTokens rejects"}

\* the client built outside the try block
validateUserKey_ctorOutsideTry(outcome) ==
  IF outcome = "ok" THEN "true"
  ELSE IF outcome = "countTokens rejects" THEN "false"
  ELSE "threw"

\* validateUserKey: "true" when countTokens resolved, "false" when the
\* client constructor or countTokens threw (both are inside the try)
validateUserKey(outcome) == IF outcome = "ok" THEN "true" ELSE "false"

\* handleSave: validateUserKey(apiKey) resolves; a valid key goes on to
\* saveUserApiKey, an invalid one only shows the error
handleSave(k, outcome) ==
  /\ modalPc = "idle"
  /\ IF validateUserKey(outcome) = "true"
       THEN modalPc' = "saving" /\ modalKey' = k
       ELSE UNCHANGED <<modalPc, modalKey>>
  /\ UNCHANGED <<storeVars, callVars, incVars>>
  /\ UNCHANGED subVars

\* handleSave: saveUserApiKey(apiKey) puts the key
saveUserApiKey ==
  /\ modalPc = "saving"
  /\ userKey' = modalKey
  /\ modalPc' = "idle"
  /\ modalKey' = NoKey
  /\ UNCHANGED <<freeCount, deviceKey, callVars, incVars>>
  /\ UNCHANGED subVars

\* handleRemoveKey: clearUserApiKey()
handleRemoveKey ==
  /\ modalPc = "idle"
  /\ userKey # NoKey
  /\ userKey' = NoKey
  /\ UNCHANGED <<freeCount, deviceKey, callVars, incVars, modalVars>>
  /\ UNCHANGED subVars

\* ------------------------------------------------------------------ Next
Next ==
  \/ \E p \in Procs, k \in Kinds : Start(p, k)
  \/ \E p \in Procs : SelectCredential(p)
  \/ \E p \in Procs, pl \in Payloads : AttemptOk(p, pl)
  \/ \E p \in Procs, m \in ErrMsgs : AttemptFail(p, m)
  \/ \E p \in Procs : Backoff(p)
  \/ \E p \in Procs : ClearAndThrow(p)
  \/ \E p \in Procs, o \in MattingOutcomes : removeSmartBackground(p, o)
  \/ \E p \in Procs : Return(p)
  \/ \E i \in Incs : SerialIncRead(i)
  \/ \E i \in Incs : IncWrite(i)
  \/ \E k \in Keys, o \in SdkOutcomes : handleSave(k, o)
  \/ saveUserApiKey
  \/ handleRemoveKey

Spec == Init /\ [][Next]_vars

\* Concurrent callers of the store (two tabs, a batch runner): the
\* incrementFreeImageCount calls interleave freely.  The service fails with
\* one transient and one client message.
QuotaErrMsgs == { {}, {"403"} }

NextQuota ==
  \/ \E p \in Procs, k \in Kinds : Start(p, k)
  \/ \E p \in Procs : SelectCredential(p)
  \/ \E p \in Procs, pl \in Payloads : AttemptOk(p, pl)
  \/ \E p \in Procs, m \in QuotaErrMsgs : AttemptFail(p, m)
  \/ \E p \in Procs : Backoff(p)
  \/ \E p \in Procs : ClearAndThrow(p)
  \/ \E p \in Procs, o \in MattingOutcomes : removeSmartBackground(p, o)
  \/ \E p \in Procs : Return(p)
  \/ \E i \in Incs : IncRead(i)
  \/ \E i \in Incs : IncWrite(i)
  \/ \E k \in Keys, o \in SdkOutcomes : handleSave(k, o)
  \/ saveUserApiKey

SpecQuota == Init /\ [][NextQuota]_vars

\* ================================================= removeSmartBackground
\* The onload handler of removeSmartBackground on a decoded image: typed
\* arrays are functions on 0..n-1, a write past the end of a typed array is
\* dropped and a read past its end yields undefined.
MaxPixels == 6          \* largest width * height of an input image

TOLERANCE == 20
TOLERANCE_SQ == TOLERANCE * TOLERANCE
SEED_STEP == 10

\* opaque black, near-black at the tolerance, the darkest colour that is not
\* near-black, and a bright translucent colour
Palette ==
  { [r |-> 0,  g |-> 0,   b |-> 0,   a |-> 255],
    [r |-> 20, g |-> 0,   b |-> 0,   a |-> 255],
    [r |-> 12, g |-> 12,  b |-> 12,  a |-> 255],
    [r |-> 50, g |-> 200, b |-> 100, a |-> 128] }

Dims == { d \in (1..MaxPixels) \X (1..MaxPixels) : d[1] * d[2] <= MaxPixels }
Images(d) == [0..(d[1] * d[2] - 1) -> Palette]

Undefined == -1
totalPixels == width * height

Max(x, y) == IF x >= y THEN x ELSE y

isBlack_strict(d, idx) ==
  (d[idx].r * d[idx].r + d[idx].g * d[idx].g + d[idx].b * d[idx].b) < TOLERANCE_SQ

\* const isBlack = (idx) => r*r + g*g + b*b <= TOLERANCE_SQ
isBlack(d, idx) ==
  (d[idx].r * d[idx].r + d[idx].g * d[idx].g + d[idx].b * d[idx].b) <= TOLERANCE_SQ

\* queue[i] = v and queue[i] on an Int32Array of length n
QueueWrite(q, n, i, v) == IF i >= 0 /\ i < n THEN [q EXCEPT ![i] = v] ELSE q
QueueRead(q, n, i) == IF i >= 0 /\ i < n THEN q[i] ELSE Undefined

\* push without visited[idx] = 1
push_noMark(st, d, n, idx) ==
  IF idx >= 0 /\ idx < n /\ st.visited[idx] = 0 /\ isBlack(d, idx)
    THEN [visited |-> st.visited,
          queue   |-> QueueWrite(st.queue, n, st.tail, idx),
          tail    |-> st.tail + 1]
    ELSE st

\* push without the isBlack test
push_anyColour(st, d, n, idx) ==
  IF idx >= 0 /\ idx < n /\ st.visited[idx] = 0
    THEN [visited |-> [st.visited EXCEPT ![idx] = 1],
          queue   |-> QueueWrite(st.queue, n, st.tail, idx),
          tail    |-> st.tail + 1]
    ELSE st

\* const push = (idx) => { if (in range, unvisited, black) { mark; enqueue } }
\* on st = [visited, queue, tail]
push(st, d, n, idx) ==
  IF idx >= 0 /\ idx < n /\ st.visited[idx] = 0 /\ isBlack(d, idx)
    THEN [visited |-> [st.visited EXCEPT ![idx] = 1],
          queue   |-> QueueWrite(st.queue, n, st.tail, idx),
          tail    |-> st.tail + 1]
    ELSE st

RECURSIVE pushAll(_, _, _, _)
pushAll(st, d, n, idxs) ==
  IF idxs = <<>> THEN st
  ELSE pushAll(push(st, d, n, Head(idxs)), d, n, Tail(idxs))

\* push(0); push(width - 1); push((height - 1) * width); push(totalPixels - 1)
CornerSeeds(w, h) == << 0, w - 1, (h - 1) * w, w * h - 1 >>

\* for (i = 0; i < width; i += 10) { push(i); push(totalPixels - 1 - i) }
RECURSIVE RowSeeds(_, _, _)
RowSeeds(w, h, i) ==
  IF i < w THEN << i, w * h - 1 - i >> \o RowSeeds(w, h, i + SEED_STEP) ELSE <<>>

\* for (i = 0; i < height; i += 10) { push(i * width); push(i * width + width - 1) }
RECURSIVE ColSeeds(_, _, _)
ColSeeds(w, h, i) ==
  IF i < h THEN << i * w, i * w + w - 1 >> \o ColSeeds(w, h, i + SEED_STEP) ELSE <<>>

\* the edge pushes made whatever the corners gave
seedFill_always(st, d, w, h) ==
  pushAll(pushAll(st, d, w * h, CornerSeeds(w, h)), d, w * h,
          RowSeeds(w, h, 0) \o ColSeeds(w, h, 0))

\* the corner pushes, and the edge pushes if (tail === 0)
seedFill(st, d, w, h) ==
  LET c == pushAll(st, d, w * h, CornerSeeds(w, h))
  IN  IF c.tail = 0
        THEN pushAll(c, d, w * h, RowSeeds(w, h, 0) \o ColSeeds(w, h, 0))
        ELSE c

\* the neighbour pushes without the column tests
neighbours_wrap(idx, w, n) ==
  IF idx = Undefined THEN <<>>
  ELSE << idx - 1, idx + 1, idx - w, idx + w >>

\* the four neighbour pushes of one iteration of while (head < tail)
neighbours(idx, w, n) ==
  IF idx = Undefined THEN <<>>
  ELSE (IF idx % w > 0 THEN << idx - 1 >> ELSE <<>>)
    \o (IF idx % w < w - 1 THEN << idx + 1 >> ELSE <<>>)
    \o (IF idx >= w THEN << idx - w >> ELSE <<>>)
    \o (IF idx < n - w THEN << idx + w >> ELSE <<>>)

isEdge_wrap(v, i, w, n) ==
  \/ (i > 0 /\ v[i - 1] = 1)
  \/ (i < n - 1 /\ v[i + 1] = 1)
  \/ (i >= w /\ v[i - w] = 1)
  \/ (i < n - w /\ v[i + w] = 1)

\* pass 2: does unvisited pixel i border a visited one
isEdge(v, i, w, n) ==
  \/ (i % w > 0 /\ v[i - 1] = 1)
  \/ (i % w < w - 1 /\ v[i + 1] = 1)
  \/ (i >= w /\ v[i - w] = 1)
  \/ (i < n - w /\ v[i + w] = 1)

\* pass 2: the alpha written (or left) at pixel i
alphaOf(d, v, i, w, n) ==
  IF v[i] = 1 THEN 0
  ELSE IF isEdge(v, i, w, n) THEN Max(d[i].r, Max(d[i].g, d[i].b))
  ELSE d[i].a

\* onload: draw the image, getImageData, allocate visited and queue, seed
matOnload(d, img) ==
  /\ matPc = "idle"
  /\ LET n == d[1] * d[2]
         fresh == [visited |-> [i \in 0..(n - 1) |-> 0],
                   queue   |-> [i \in 0..(n - 1) |-> 0],
                   tail    |-> 0]
         st == seedFill(fresh, img, d[1], d[2])
     IN  /\ width' = d[1]
         /\ height' = d[2]
         /\ data' = img
         /\ matInput' = img
         /\ visited' = st.visited
         /\ queue' = st.queue
         /\ tail' = st.tail
  /\ head' = 0
  /\ matRun' = 1
  /\ matPc' = "fill"
  /\ UNCHANGED matFirstOut
  /\ UNCHANGED notMat

\* one iteration of while (head < tail)
matFillStep ==
  /\ matPc = "fill"
  /\ head < tail
  /\ LET idx == QueueRead(queue, totalPixels, head)
         st == pushAll([visited |-> visited, queue |-> queue, tail |-> tail],
                       data, totalPixels, neighbours(idx, width, totalPixels))
     IN  /\ visited' = st.visited
         /\ queue' = st.queue
         /\ tail' = st.tail
  /\ head' = head + 1
  /\ UNCHANGED <<matPc, matRun, matInput, matFirstOut, width, height, data>>
  /\ UNCHANGED notMat

\* the loop has ended: pass 1 is complete
matFillDone ==
  /\ matPc = "fill"
  /\ ~(head < tail)
  /\ matPc' = "filled"
  /\ UNCHANGED <<matRun, matInput, matFirstOut, width, height, data,
                 visited, queue, head, tail>>
  /\ UNCHANGED notMat

\* pass 2 over every pixel, putImageData, resolve(canvas.toDataURL())
matPass2 ==
  /\ matPc = "filled"
  /\ data' = [i \in 0..(totalPixels - 1) |->
                [data[i] EXCEPT !.a = alphaOf(data, visited, i, width, totalPixels)]]
  /\ matPc' = "done"
  /\ UNCHANGED <<matRun, matInput, matFirstOut, width, height,
                 visited, queue, head, tail>>
  /\ UNCHANGED notMat

\* a second call whose queue indices survive from the first
matOnloadAgain_keepsIndices ==
  /\ matPc = "done"
  /\ matRun = 1
  /\ LET n == totalPixels
         fresh == [visited |-> [i \in 0..(n - 1) |-> 0],
                   queue   |-> [i \in 0..(n - 1) |-> 0],
                   tail    |-> tail]
         st == seedFill(fresh, matInput, width, height)
     IN  /\ visited' = st.visited
         /\ queue' = st.queue
         /\ tail' = st.tail
  /\ matFirstOut' = data
  /\ data' = matInput
  /\ matRun' = 2
  /\ matPc' = "fill"
  /\ UNCHANGED <<matInput, width, height, head>>
  /\ UNCHANGED notMat

\* removeSmartBackground is called again on the same base64Image: a new
\* canvas, new arrays, head = tail = 0
matOnloadAgain ==
  /\ matPc = "done"
  /\ matRun = 1
  /\ LET n == totalPixels
         fresh == [visited |-> [i \in 0..(n - 1) |-> 0],
                   queue   |-> [i \in 0..(n - 1) |-> 0],
                   tail    |-> 0]
         st == seedFill(fresh, matInput, width, height)
     IN  /\ visited' = st.visited
         /\ queue' = st.queue
         /\ tail' = st.tail
  /\ head' = 0
  /\ matFirstOut' = data
  /\ data' = matInput
  /\ matRun' = 2
  /\ matPc' = "fill"
  /\ UNCHANGED <<matInput, width, height>>
  /\ UNCHANGED notMat

\* both results have been taken; the next image may be loaded
matRelease ==
  /\ matPc = "done"
  /\ matRun = 2
  /\ matPc' = "idle"
  /\ matRun' = 0
  /\ matInput' = <<>>
  /\ matFirstOut' = <<>>
  /\ width' = 0
  /\ height' = 0
  /\ data' = <<>>
  /\ visited' = <<>>
  /\ queue' = <<>>
  /\ head' = 0
  /\ tail' = 0
  /\ UNCHANGED notMat

InitMatting == OrchInit /\ ~deviceKey /\ SubIdle

NextMatting ==
  \/ matPc = "idle" /\ \E d \in Dims : \E img \in Images(d) : matOnload(d, img)
  \/ matFillStep
  \/ matFillDone
  \/ matPass2
  \/ matOnloadAgain
  \/ matRelease

SpecMatting == InitMatting /\ [][NextMatting]_vars

\* ---- the same function on images wide or tall enough for the edge seeds
\* to differ from the corners: a few near-black pixels on a coloured image
MaxSeedSide == 12         \* longer side of these images
MaxThin == 2              \* shorter side of these images
SeedDims ==
  { d \in (1..MaxSeedSide) \X (1..MaxSeedSide) :
      \/ d[1] = MaxSeedSide /\ d[2] <= MaxThin
      \/ d[2] = MaxSeedSide /\ d[1] <= MaxThin }
BlackPixel == [r |-> 0, g |-> 0, b |-> 0, a |-> 255]
ColourPixel == [r |-> 50, g |-> 200, b |-> 100, a |-> 128]
BlackSets(n) ==
  { {} } \cup { {a, b, c} : a \in 0..(n - 1), b \in 0..(n - 1), c \in 0..(n - 1) }
SparseImages(d) ==
  { [i \in 0..(d[1] * d[2] - 1) |-> IF i \in B THEN BlackPixel ELSE ColourPixel] :
      B \in BlackSets(d[1] * d[2]) }

NextSeeding ==
  \/ matPc = "idle" /\ \E d \in SeedDims : \E img \in SparseImages(d) : matOnload(d, img)
  \/ matFillStep
  \/ matFillDone
  \/ matPass2
  \/ matOnloadAgain
  \/ matRelease

SpecSeeding == InitMatting /\ [][NextSeeding]_vars

\* ------------------------------------------ convertToWhatsAppFormat
\* Qualities are IEEE-754 doubles.  Every value the loop can hold is
\* k/10 + e * U with U = 2^-56 / 10 and small integers k, e; the pair
\* Q(k, e) stands for k * 2^56 + e units of U.
UNIT_EXP == 56
MANTISSA_BITS == 53
MAX_BYTES == 99 * 1024
START_TENTHS == 9         \* attemptConversion(0.9)
STEP_TENTHS == 1          \* quality - 0.1, quality > 0.1

RECURSIVE Pow2Mod(_, _)
Pow2Mod(n, m) ==
  IF n = 0 THEN 1 % m
  ELSE IF n % 2 = 0
    THEN LET h == Pow2Mod(n \div 2, m) IN (h * h) % m
    ELSE (2 * Pow2Mod(n - 1, m)) % m

\* distance between neighbouring doubles around q, in units of U: the
\* binade [2^-b, 2^(1-b)) has spacing 2^(1-b-53) = 10 * 2^(4-b) units
Spacing(q) ==
  LET b == IF q.k > 5 \/ (q.k = 5 /\ q.e >= 0) THEN 1     \* q >= 1/2
           ELSE IF q.k >= 3 THEN 2                         \* q >= 1/4
           ELSE IF q.k >= 2 THEN 3                         \* q >= 1/8
           ELSE 4                                          \* q >= 1/16, or exact
  IN  10 * 2 ^ (UNIT_EXP - MANTISSA_BITS + 1 - b)

\* round to nearest double, ties to the even mantissa
RoundToDouble(q) ==
  LET s == Spacing(q)
      r == (Pow2Mod(UNIT_EXP, 2 * s) * q.k + q.e) % (2 * s)
      d == r % s
      lo == q.e - d
      up == IF 2 * d > s THEN TRUE
            ELSE IF 2 * d < s THEN FALSE
            ELSE r - d # 0
  IN  IF d = 0 THEN q ELSE Q(q.k, IF up THEN lo + s ELSE lo)

\* the literal k/10 as the compiler stores it
Tenths(k) == RoundToDouble(Q(k, 0))
Minus(a, b) == RoundToDouble(Q(a.k - b.k, a.e - b.e))
Greater(a, b) == a.k > b.k \/ (a.k = b.k /\ a.e > b.e)

\* blob sizes the encoder may produce
BlobSizes == {MAX_BYTES - 1, MAX_BYTES, MAX_BYTES + 1, 2 * MAX_BYTES}
Blob(n, q) == [null |-> FALSE, size |-> n, quality |-> q]
Resolved(b) == [tag |-> "blob", blob |-> b, msg |-> ""]
Rejected(m) == [tag |-> "err", blob |-> NoBlob, msg |-> m]

\* convertToWhatsAppFormat(base64Image): img.src = base64Image
convertToWhatsAppFormat ==
  /\ expPc = "idle"
  /\ expPc' = "loading"
  /\ UNCHANGED <<expQuality, expBlobs, expResult>>
  /\ UNCHANGED notExp

\* img.onerror settling with an empty blob instead
expOnerror_resolvesEmpty ==
  /\ expPc = "loading"
  /\ expPc' = "resolved"
  /\ expResult' = Resolved(Blob(0, Q(0, 0)))
  /\ UNCHANGED <<expQuality, expBlobs>>
  /\ UNCHANGED notExp

\* img.onerror: reject(e)
expOnerror ==
  /\ expPc = "loading"
  /\ expPc' = "rejected"
  /\ expResult' = Rejected("error event")
  /\ UNCHANGED <<expQuality, expBlobs>>
  /\ UNCHANGED notExp

\* img.onload: no 2d context rejects; otherwise the image is drawn and
\* attemptConversion(0.9) asks for the first blob
expOnload(ctxOk) ==
  /\ expPc = "loading"
  /\ IF ctxOk
       THEN /\ expPc' = "encoding"
            /\ expQuality' = Tenths(START_TENTHS)
            /\ UNCHANGED expResult
       ELSE /\ expPc' = "rejected"
            /\ expResult' = Rejected("Canvas context failed")
            /\ UNCHANGED expQuality
  /\ UNCHANGED expBlobs
  /\ UNCHANGED notExp

\* the toBlob callback with a null blob: every blob so far is dropped
toBlobNull_keepsLast ==
  /\ expPc = "encoding"
  /\ expBlobs' = Append(expBlobs, NoBlob)
  /\ IF expBlobs = <<>>
       THEN expPc' = "rejected" /\ expResult' = Rejected("WebP encoding failed")
       ELSE expPc' = "resolved" /\ expResult' = Resolved(expBlobs[Len(expBlobs)])
  /\ UNCHANGED expQuality
  /\ UNCHANGED notExp

\* the toBlob callback with a null blob
toBlobNull ==
  /\ expPc = "encoding"
  /\ expBlobs' = Append(expBlobs, NoBlob)
  /\ expPc' = "rejected"
  /\ expResult' = Rejected("WebP encoding failed")
  /\ UNCHANGED expQuality
  /\ UNCHANGED notExp

\* the toBlob callback with a blob: too large and quality > 0.1 tries
\* again at quality - 0.1, anything else resolves
toBlob(size) ==
  /\ expPc = "encoding"
  /\ LET blob == Blob(size, expQuality)
     IN  /\ expBlobs' = Append(expBlobs, blob)
         /\ IF blob.size > MAX_BYTES /\ Greater(expQuality, Tenths(STEP_TENTHS))
              THEN /\ expQuality' = Minus(expQuality, Tenths(STEP_TENTHS))
                   /\ UNCHANGED <<expPc, expResult>>
              ELSE /\ expPc' = "resolved"
                   /\ expResult' = Resolved(blob)
                   /\ UNCHANGED expQuality
  /\ UNCHANGED notExp

\* the caller has its answer; the next export starts afresh
expRelease ==
  /\ expPc \in {"resolved", "rejected"}
  /\ expPc' = "idle"
  /\ expQuality' = Q(0, 0)
  /\ expBlobs' = <<>>
  /\ expResult' = Unsettled
  /\ UNCHANGED notExp

InitExport == OrchInit /\ ~deviceKey /\ SubIdle

NextExport ==
  \/ convertToWhatsAppFormat
  \/ expOnerror
  \/ \E ctxOk \in BOOLEAN : expOnload(ctxOk)
  \/ toBlobNull
  \/ \E size \in BlobSizes : toBlob(size)
  \/ expRelease

SpecExport == InitExport /\ [][NextExport]_vars

\* ----------------------------------------------------------- processImage
MAX_DIMENSION == 1024
SmallSide == 3            \* image sides 1..SmallSide
MaxSide == 1027           \* image sides MAX_DIMENSION - 1 .. MaxSide
Sides ==
  (1..SmallSide) \cup ((MAX_DIMENSION - 1)..MaxSide)
    \cup {2 * MAX_DIMENSION - 1, 2 * MAX_DIMENSION, 2 * MAX_DIMENSION + 1,
          4 * MAX_DIMENSION}

\* n / d rounded down
MathRound_floor(n, d) == n \div d

\* Math.round(n / d) for naturals n, d > 0: the nearest integer, halves
\* up.  The double n / d is never closer than 1 / (2 * d) to a half it
\* does not equal, so rounding the double rounds the exact quotient.
MathRound(n, d) == (2 * n + d) \div (2 * d)

\* the canvas size for an image of w x h
canvasSize(w, h) ==
  IF w > MAX_DIMENSION \/ h > MAX_DIMENSION
    THEN IF w > h
           THEN << MAX_DIMENSION, MathRound(h * MAX_DIMENSION, w) >>
           ELSE << MathRound(w * MAX_DIMENSION, h), MAX_DIMENSION >>
    ELSE << w, h >>

\* processImage(file): img.src = URL.createObjectURL(file)
processImage(w, h) ==
  /\ imgPc = "idle"
  /\ imgPc' = "loading"
  /\ imgW' = w
  /\ imgH' = h
  /\ objectUrl' = "live"
  /\ UNCHANGED <<canvasW, canvasH, imgResult>>
  /\ UNCHANGED notImg

\* img.onerror: revoke, reject(err)
imgOnerror ==
  /\ imgPc = "loading"
  /\ objectUrl' = "revoked"
  /\ imgPc' = "rejected"
  /\ imgResult' = "error event"
  /\ UNCHANGED <<imgW, imgH, canvasW, canvasH>>
  /\ UNCHANGED notImg

\* img.onload: size the canvas; without a 2d context reject and return,
\* otherwise draw, encode, revoke and resolve
imgOnload(ctxOk) ==
  /\ imgPc = "loading"
  /\ canvasW' = canvasSize(imgW, imgH)[1]
  /\ canvasH' = canvasSize(imgW, imgH)[2]
  /\ IF ctxOk
       THEN /\ objectUrl' = "revoked"
            /\ imgPc' = "resolved"
            /\ imgResult' = "data"
       ELSE /\ imgPc' = "rejected"
            /\ imgResult' = "Canvas context missing"
            /\ UNCHANGED objectUrl
  /\ UNCHANGED <<imgW, imgH>>
  /\ UNCHANGED notImg

\* the caller has its answer; the next call starts afresh
imgRelease ==
  /\ imgPc \in {"resolved", "rejected"}
  /\ imgPc' = "idle"
  /\ imgW' = 0
  /\ imgH' = 0
  /\ canvasW' = 0
  /\ canvasH' = 0
  /\ objectUrl' = "none"
  /\ imgResult' = "none"
  /\ UNCHANGED notImg

InitImage == OrchInit /\ ~deviceKey /\ SubIdle

NextImage ==
  \/ \E w \in Sides : \E h \in Sides : processImage(w, h)
  \/ imgOnerror
  \/ \E ctxOk \in BOOLEAN : imgOnload(ctxOk)
  \/ imgRelease

SpecImage == InitImage /\ [][NextImage]_vars

\* -------------------------------------------------------- validateUserKey
\* validateUserKey(apiKey) is called
valCall(k) ==
  /\ valPc = "idle"
  /\ valPc' = "called"
  /\ valKey' = k
  /\ UNCHANGED <<valOutcome, valResult>>
  /\ UNCHANGED <<storeVars, incVars, modalVars>>
  /\ UNCHANGED notVal

\* the SDK answers and the promise settles
valSettle(outcome) ==
  /\ valPc = "called"
  /\ valPc' = "settled"
  /\ valOutcome' = outcome
  /\ valResult' = validateUserKey(outcome)
  /\ UNCHANGED valKey
  /\ UNCHANGED <<storeVars, incVars, modalVars>>
  /\ UNCHANGED notVal

\* the caller has its answer
valRelease ==
  /\ valPc = "settled"
  /\ valPc' = "idle"
  /\ valKey' = NoKey
  /\ valOutcome' = "none"
  /\ valResult' = "none"
  /\ UNCHANGED <<storeVars, incVars, modalVars>>
  /\ UNCHANGED notVal

InitValidate == OrchInit /\ SubIdle

\* validation next to everything that writes the settings store
NextValidate ==
  \/ \E k \in Keys : valCall(k)
  \/ \E o \in SdkOutcomes : valSettle(o)
  \/ valRelease
  \/ \E i \in Incs : SerialIncRead(i)
  \/ \E i \in Incs : IncWrite(i)
  \/ \E k \in Keys, o \in SdkOutcomes : handleSave(k, o)
  \/ saveUserApiKey
  \/ handleRemoveKey

SpecValidate == InitValidate /\ [][NextValidate]_vars

\* ------------------------------------------------------------ StickerMaker
\* what the service does with one orchestrated call of a handler; "hang" is
\* an image answer whose matting never settles
ServiceOutcomes == {"ok", "empty", "auth", "other", "hang"}

\* callGemini as a handler sees it: the message of the error it throws for
\* the stored key and the outcome of the (retried) operation, "none" if it
\* returns the response
callGeminiThrows(key, outcome) ==
  IF key = NoKey THEN "API_KEY_REQUIRED"
  ELSE IF outcome = "auth" THEN "API_KEY_INVALID"
  ELSE IF outcome = "other" THEN "raw error"
  ELSE "none"

\* callGemini's clearUserApiKey()
keyAfterCall(key, outcome) == IF key # NoKey /\ outcome = "auth" THEN NoKey ELSE key

\* generateSticker / editSticker: the message of the error the handler gets
stickerThrows(key, outcome) ==
  IF callGeminiThrows(key, outcome) = "none" /\ outcome = "empty"
    THEN "no sticker"
    ELSE callGeminiThrows(key, outcome)

\* handleError(err)
handleError(msg) ==
  IF msg = "API_KEY_REQUIRED"
    THEN /\ keyModalReason' = IF quotaUsed >= FREE_LIMIT THEN "quota" ELSE "missing"
         /\ showKeyModal' = TRUE
         /\ UNCHANGED uiError
  ELSE IF msg = "API_KEY_INVALID"
    THEN /\ keyModalReason' = "invalid"
         /\ showKeyModal' = TRUE
         /\ UNCHANGED uiError
  ELSE /\ uiError' = "Failed to generate."
       /\ UNCHANGED <<showKeyModal, keyModalReason>>

\* handleGenerate up to its first await.  The Generate button is disabled
\* while isLoading or with nothing to generate from; Enter in the prompt or
\* caption input calls the handler directly.  setGeneratedSticker(null) on
\* a sticker re-runs the refreshQuota effect
handleGenerate(r, prompt, image, trigger) ==
  /\ hgPc[r] = "idle"
  /\ trigger = "button" => (image \/ prompt) /\ ~isLoading
  /\ IF ~image /\ ~prompt
       THEN /\ uiError' = "Upload an image or enter a text prompt to start."
            /\ UNCHANGED <<hgPc, hgKind, hgPrompt, hgImage, hgLog, isLoading,
                           generatedSticker, isEditing, quotaUsed>>
       ELSE /\ isLoading' = TRUE
            /\ uiError' = "null"
            /\ generatedSticker' = FALSE
            /\ quotaUsed' = IF generatedSticker THEN freeCount ELSE quotaUsed
            /\ isEditing' = FALSE
            /\ hgPc' = [hgPc EXCEPT ![r] = IF prompt THEN "enhance" ELSE "process"]
            /\ hgKind' = [hgKind EXCEPT ![r] = "generate"]
            /\ hgPrompt' = [hgPrompt EXCEPT ![r] = prompt]
            /\ hgImage' = [hgImage EXCEPT ![r] = image]
            /\ hgLog' = [hgLog EXCEPT ![r] = {}]
  /\ UNCHANGED <<showKeyModal, keyModalReason, userKey>>
  /\ UNCHANGED notMaker

\* await enhancePromptForComedy(prompt) resolves: it catches whatever
\* callGemini throws
hgEnhanced(r, outcome) ==
  /\ hgPc[r] = "enhance"
  /\ outcome # "hang"
  /\ hgLog' = [hgLog EXCEPT ![r] = @ \cup ({callGeminiThrows(userKey, outcome)} \ {"none"})]
  /\ userKey' = keyAfterCall(userKey, outcome)
  /\ hgPc' = [hgPc EXCEPT ![r] = IF hgImage[r] THEN "process" ELSE "generate"]
  /\ UNCHANGED <<hgKind, hgPrompt, hgImage, isLoading, showKeyModal, keyModalReason,
                 uiError, generatedSticker, isEditing, quotaUsed>>
  /\ UNCHANGED notMaker

\* await processImage(selectedImage) settles; a rejection goes to the catch
\* and the finally
hgProcessed(r, ok) ==
  /\ hgPc[r] = "process"
  /\ IF ok
       THEN /\ hgPc' = [hgPc EXCEPT ![r] = "generate"]
            /\ UNCHANGED <<isLoading, showKeyModal, keyModalReason, uiError>>
       ELSE /\ handleError("decode error")
            /\ isLoading' = FALSE
            /\ hgPc' = [hgPc EXCEPT ![r] = "idle"]
  /\ UNCHANGED <<hgKind, hgPrompt, hgImage, hgLog, generatedSticker, isEditing,
                 quotaUsed, userKey>>
  /\ UNCHANGED notMaker

\* await generateSticker(...) / await editSticker(...) settles, through the
\* catch and the finally; a new sticker re-runs the refreshQuota effect
hgSettled(r, outcome) ==
  /\ hgPc[r] \in {"generate", "edit"}
  /\ LET msg == stickerThrows(userKey, outcome)
     IN  /\ hgLog' = [hgLog EXCEPT ![r] =
                        @ \cup ({callGeminiThrows(userKey, outcome)} \ {"none"})]
         /\ userKey' = keyAfterCall(userKey, outcome)
         /\ IF msg = "none" /\ outcome = "hang"
              THEN /\ hgPc' = [hgPc EXCEPT ![r] = "hung"]
                   /\ UNCHANGED <<isLoading, showKeyModal, keyModalReason, uiError,
                                  generatedSticker, isEditing, quotaUsed>>
              ELSE /\ hgPc' = [hgPc EXCEPT ![r] = "idle"]
                   /\ isLoading' = FALSE
                   /\ IF msg = "none"
                        THEN /\ generatedSticker' = TRUE
                             /\ isEditing' = IF hgKind[r] = "edit" THEN FALSE ELSE isEditing
                             /\ quotaUsed' = freeCount
                             /\ UNCHANGED <<showKeyModal, keyModalReason, uiError>>
                        ELSE /\ handleError(msg)
                             /\ UNCHANGED <<generatedSticker, isEditing, quotaUsed>>
  /\ UNCHANGED <<hgKind, hgPrompt, hgImage>>
  /\ UNCHANGED notMaker

\* the Edit button under the sticker: setIsEditing(true)
startEditing ==
  /\ generatedSticker
  /\ ~isEditing
  /\ ~isLoading
  /\ isEditing' = TRUE
  /\ UNCHANGED <<hgPc, hgKind, hgPrompt, hgImage, hgLog, isLoading, showKeyModal,
                 keyModalReason, uiError, generatedSticker, quotaUsed, userKey>>
  /\ UNCHANGED notMaker

\* handleEdit up to its await, from Enter in the edit input or its button
handleEdit(r) ==
  /\ hgPc[r] = "idle"
  /\ isEditing
  /\ generatedSticker
  /\ isLoading' = TRUE
  /\ uiError' = "null"
  /\ hgPc' = [hgPc EXCEPT ![r] = "edit"]
  /\ hgKind' = [hgKind EXCEPT ![r] = "edit"]
  /\ hgPrompt' = [hgPrompt EXCEPT ![r] = TRUE]
  /\ hgImage' = [hgImage EXCEPT ![r] = FALSE]
  /\ hgLog' = [hgLog EXCEPT ![r] = {}]
  /\ UNCHANGED <<showKeyModal, keyModalReason, generatedSticker, isEditing,
                 quotaUsed, userKey>>
  /\ UNCHANGED notMaker

\* ApiKeyModal onClose: setShowKeyModal(false); refreshQuota()
closeKeyModal ==
  /\ showKeyModal
  /\ showKeyModal' = FALSE
  /\ quotaUsed' = freeCount
  /\ UNCHANGED <<hgPc, hgKind, hgPrompt, hgImage, hgLog, isLoading, keyModalReason,
                 uiError, generatedSticker, isEditing, userKey>>
  /\ UNCHANGED notMaker

\* the view mounted on a store that holds no key and a counter of 0 or 5
InitMaker ==
  /\ userKey = NoKey
  /\ freeCount \in {0, FREE_LIMIT}
  /\ deviceKey = FALSE
  /\ CallIdle
  /\ SubIdle

NextMaker ==
  \/ \E r \in Runs, prompt \in BOOLEAN, image \in BOOLEAN, trigger \in {"button", "enter"} :
       handleGenerate(r, prompt, image, trigger)
  \/ \E r \in Runs, o \in ServiceOutcomes : hgEnhanced(r, o)
  \/ \E r \in Runs, ok \in BOOLEAN : hgProcessed(r, ok)
  \/ \E r \in Runs, o \in ServiceOutcomes : hgSettled(r, o)
  \/ startEditing
  \/ \E r \in Runs : handleEdit(r)
  \/ closeKeyModal
  \/ \E k \in Keys, o \in SdkOutcomes : handleSave(k, o)
  \/ saveUserApiKey

SpecMaker == InitMaker /\ [][NextMaker]_vars

\* ================================================================ claims
Last(s) == s[Len(s)]

\* the claims' own reading of the two substring lists
ClientMsg(msg) == msg \cap {"400", "403", "404", "not found", "API key"} # {}
AuthMsg(msg) ==
  msg \cap {"API key", "403", "PERMISSION_DENIED", "API_KEY_INVALID"} # {}
AllTransient(s) == \A i \in 1..Len(s) : ~ClientMsg(s[i])
BackoffSchedule == <<1000, 2000>>

\* C1: a call whose every attempt fails with a transient error invokes the
\* operation exactly 3 times, waits 1000 ms and then 2000 ms between the
\* attempts, and surfaces the error only after the third attempt.
C1_TransientRetriedThreeTimes ==
  \A p \in Procs :
    (errs[p] # <<>> /\ AllTransient(errs[p])) =>
      /\ Len(waits[p]) <= 2
      /\ waits[p] = SubSeq(BackoffSchedule, 1, Len(waits[p]))
      /\ calls[p] <= 3
      /\ cgResult[p].tag = "err" =>
           (calls[p] = 3 /\ Len(errs[p]) = 3 /\ waits[p] = BackoffSchedule)

C1_Witness ==
  \E p \in Procs :
    /\ errs[p] = << {}, {}, {} >>
    /\ cgResult[p] = Err({}, "service")
    /\ calls[p] = 3
    /\ waits[p] = BackoffSchedule

\* C2: an attempt that fails with a client message ("400", "403", "404",
\* "not found", "API key") is the last one: no further attempt is made and
\* no delay is waited after it; a first attempt failing with "404" leaves
\* the operation invoked exactly once.
C2_ClientErrorNotRetried ==
  \A p \in Procs : \A i \in 1..Len(errs[p]) :
    ClientMsg(errs[p][i]) =>
      /\ i = Len(errs[p])
      /\ calls[p] = i
      /\ Len(waits[p]) = i - 1
      /\ pc[p] \in {"clearing", "done"}

C2_Witness ==
  \E p \in Procs :
    /\ errs[p] = << {"404"} >>
    /\ calls[p] = 1
    /\ waits[p] = <<>>
    /\ cgResult[p] = Err({"404"}, "service")

\* the step in which callGemini's getUserApiKey() resolves for p
Selects(p) == pc[p] = "getKey" /\ pc'[p] # "getKey"
\* a step of p's exported operation
StepOf(p) ==
  <<pc[p], calls[p], waits[p], errs[p], cgResult[p], opResult[p]>> #
  <<pc'[p], calls'[p], waits'[p], errs'[p], cgResult'[p], opResult'[p]>>
Required == Err(ERROR_API_KEY_REQUIRED, "callGemini")
Invalid == Err(ERROR_API_KEY_INVALID, "callGemini")
Consuming == {"create", "edit"}

\* C3: with no UserKey stored, a DeviceKey configured and QuotaCounter below
\* 5, a consuming call is executed against the model and its success
\* increments the counter exactly once; only from a counter of 5 on does the
\* call fail with CredentialRequired without invoking the model.
C3_FreeQuotaOfFive ==
  [][\A p \in Procs :
       /\ (Selects(p) /\ userKey = NoKey /\ deviceKey /\ freeCount < FREE_LIMIT
             /\ kind[p] \in Consuming)
            => pc'[p] = "attempt"
       /\ (pc[p] = "attempt" /\ cgResult'[p].tag = "ok" /\ aiKey[p] = NoKey
             /\ kind[p] \in Consuming)
            => freeCount' = freeCount + 1
       /\ (Selects(p) /\ userKey = NoKey /\ freeCount >= FREE_LIMIT)
            => (cgResult'[p] = Required /\ calls'[p] = 0)]_vars

\* C4: with no UserKey stored and QuotaCounter >= 5 or no DeviceKey
\* configured, callGemini fails with API_KEY_REQUIRED for every kind of
\* operation, before the model operation is invoked and without any retry
\* or delay.
C4_CredentialRequired ==
  /\ [][\A p \in Procs :
          (Selects(p) /\ userKey = NoKey /\ (freeCount >= FREE_LIMIT \/ ~deviceKey))
            => /\ cgResult'[p] = Required
               /\ pc'[p] = "done"
               /\ calls'[p] = 0
               /\ waits'[p] = <<>>]_vars
  /\ [](\A p \in Procs :
          cgResult[p] = Required =>
            (calls[p] = 0 /\ waits[p] = <<>> /\ errs[p] = <<>> /\ pc[p] = "done"))

C4_Witness ==
  \E p \in Procs :
    /\ cgResult[p] = Required
    /\ kind[p] = "analyze"
    /\ userKey = NoKey
    /\ deviceKey
    /\ freeCount >= FREE_LIMIT
    /\ calls[p] = 0

\* C5: a stored UserKey is the credential the call uses whatever the value
\* of QuotaCounter, and no step of a call made with a UserKey changes
\* QuotaCounter, whether the call succeeds or fails.
C5_UserKeyBypassesQuota ==
  [][\A p \in Procs :
       /\ (Selects(p) /\ userKey # NoKey)
            => (aiKey'[p] = userKey /\ pc'[p] = "attempt")
       /\ (StepOf(p) /\ (aiKey[p] # NoKey \/ aiKey'[p] # NoKey))
            => freeCount' = freeCount]_vars

C5_Witness ==
  \E p \in Procs :
    /\ aiKey[p] \in Keys
    /\ freeCount >= FREE_LIMIT
    /\ kind[p] = "create"
    /\ opResult[p] = Ok("matted")

\* C6: when a call made with a stored UserKey finally fails with a message
\* containing "API key", "403", "PERMISSION_DENIED" or "API_KEY_INVALID",
\* the stored UserKey is cleared and the caller of callGemini receives
\* API_KEY_INVALID; the key is already cleared in the state in which the
\* error is delivered.
C6_InvalidKeyCleared ==
  /\ [][\A p \in Procs :
          (cgResult[p].tag = "none" /\ cgResult'[p].tag = "err"
             /\ aiKey[p] \in Keys /\ errs'[p] # <<>> /\ AuthMsg(Last(errs'[p])))
            => (cgResult'[p] = Invalid /\ userKey' = NoKey)]_vars
  /\ [](\A p \in Procs :
          (cgResult[p].tag = "err" /\ errs[p] # <<>> /\ AuthMsg(Last(errs[p])))
            => cgResult[p] = Invalid)

C6_Witness ==
  \E p \in Procs :
    /\ cgResult[p] = Invalid
    /\ Last(errs[p]) = {"PERMISSION_DENIED"}
    /\ aiKey[p] = "k1"
    /\ userKey = NoKey

\* C7 (as stated): when all 3 attempts have failed, the caller of callGemini
\* receives the error of the last attempt, the same object, whatever its
\* message.
C7_LastErrorUnchanged ==
  \A p \in Procs :
    (Len(errs[p]) = 3 /\ cgResult[p].tag = "err")
      => cgResult[p] = Err(errs[p][3], "service")

\* C7 (amended): when all 3 attempts have failed, the caller of callGemini
\* receives the error of the last attempt unchanged unless its message
\* contains "API key", "403", "PERMISSION_DENIED" or "API_KEY_INVALID"; in
\* that case it receives a new API_KEY_INVALID error.
C7_LastErrorUnlessAuth ==
  \A p \in Procs :
    (Len(errs[p]) = 3 /\ cgResult[p].tag = "err")
      => cgResult[p] =
           IF AuthMsg(errs[p][3]) THEN Invalid ELSE Err(errs[p][3], "service")

C7_Witness ==
  \E p \in Procs :
    /\ errs[p] = << {}, {}, {"400"} >>
    /\ cgResult[p] = Err({"400"}, "service")

\* C8: QuotaCounter is never changed by a step of an exported operation
\* (create, edit, detect, analyze, enhance; succeeding or failing at
\* credential selection, after retries or on an empty response) nor by
\* validateUserKey: it changes only in the write of incrementFreeImageCount.
C8_QuotaFrame ==
  [][freeCount' # freeCount =>
       /\ \E i \in Incs : incPc[i] = "read" /\ incPc'[i] = "idle"
       /\ UNCHANGED <<pc, kind, aiKey, retries, delay, calls, waits, errs,
                      cgResult, opResult, mat>>
       /\ UNCHANGED <<modalPc, modalKey>>]_vars

C8_Witness ==
  \E p \in Procs :
    /\ kind[p] = "detect"
    /\ cgResult[p] = Ok("data")
    /\ opResult[p] = Ok("text")
    /\ freeCount = 0

\* the write of incrementFreeImageCount call i
Writes(i) == incPc[i] = "read" /\ incPc'[i] = "idle"

\* C9 (as stated): across any interleaving of pipeline invocations and
\* incrementFreeImageCount calls the stored QuotaCounter never decreases
\* from one state to the next.
C9_NeverDecreases == [][freeCount' >= freeCount]_vars

\* C9 (amended): the stored QuotaCounter decreases only in the write of an
\* incrementFreeImageCount call whose read is stale (another call wrote
\* since it read); the write of a call whose read is still current raises
\* the counter by exactly 1, and no pipeline step changes it.
C9_DecreasesOnlyOnStaleWrite ==
  /\ [][freeCount' < freeCount =>
          \E i \in Incs : Writes(i) /\ incRead[i] + 1 < freeCount]_vars
  /\ [][\A i \in Incs :
          (Writes(i) /\ incRead[i] = freeCount) => freeCount' = freeCount + 1]_vars
  /\ [][(\E p \in Procs : StepOf(p)) => freeCount' = freeCount]_vars

C9_Witness ==
  /\ freeCount = 2
  /\ \E i \in Incs : incPc[i] = "read" /\ incRead[i] = 0
  /\ \E p \in Procs : pc[p] = "attempt"

\* C10: removeSmartBackground always settles: once its image event has been
\* handled the promise is resolved, and after an undecodable image, a
\* missing context or an exception inside the load handler it is resolved
\* with the original image.
C10_MattingAlwaysResolves ==
  \A p \in Procs :
    mat[p] # "none" =>
      /\ opResult[p].tag = "ok"
      /\ mat[p] # "matted" => opResult[p] = Ok("original")

\* ---- matting, stated on pixel coordinates (x, y) of the input image
Pixels == 0..(width * height - 1)
XOf(i) == i % width
YOf(i) == i \div width
Abs(x) == IF x >= 0 THEN x ELSE -x
Adjacent4(i, j) == Abs(XOf(i) - XOf(j)) + Abs(YOf(i) - YOf(j)) = 1
NearBlack(i) ==
  matInput[i].r * matInput[i].r + matInput[i].g * matInput[i].g
    + matInput[i].b * matInput[i].b <= 400
CornerPixels ==
  { i \in Pixels : XOf(i) \in {0, width - 1} /\ YOf(i) \in {0, height - 1} }
TenthEdgePixels ==
  { i \in Pixels :
      \/ YOf(i) = 0 /\ XOf(i) % 10 = 0
      \/ YOf(i) = height - 1 /\ (width - 1 - XOf(i)) % 10 = 0
      \/ XOf(i) \in {0, width - 1} /\ YOf(i) % 10 = 0 }
SeedPixels ==
  IF \E i \in CornerPixels : NearBlack(i)
    THEN { i \in CornerPixels : NearBlack(i) }
    ELSE { i \in TenthEdgePixels : NearBlack(i) }
RECURSIVE Flood(_)
Flood(S) ==
  LET T == S \cup { j \in Pixels : NearBlack(j) /\ \E i \in S : Adjacent4(i, j) }
  IN  IF T = S THEN S ELSE Flood(T)
Background == Flood(SeedPixels)
VisitedSet == { i \in Pixels : visited[i] = 1 }
MaxRGB(i) == Max(matInput[i].r, Max(matInput[i].g, matInput[i].b))
Pass1Over == matPc \in {"filled", "done"}

\* C11: after pass 1 the visited pixels are exactly the near-black pixels
\* joined to a seed pixel by a path of 4-adjacent near-black pixels (no
\* diagonal step, no wrap from the end of a row to the start of the next);
\* a near-black pixel not reachable this way is never marked and keeps its
\* alpha.
C11_VisitedIsReachableBackground ==
  /\ Pass1Over => VisitedSet = Background
  /\ matPc = "done" =>
       \A i \in Pixels :
         (NearBlack(i) /\ i \notin Background) =>
           (visited[i] = 0 /\ data[i].a = matInput[i].a /\ data[i].a # 0)

C11_Witness ==
  /\ matPc = "done"
  /\ width = 2
  /\ height = 3
  /\ VisitedSet = {1}
  /\ NearBlack(2)
  /\ data[2].a = 255

\* C12: after pass 2 a visited pixel has alpha 0; an unvisited pixel with a
\* visited in-bounds 4-neighbour has alpha max(R, G, B) of its own colour;
\* every other pixel has its input alpha.
C12_AlphaReconstruction ==
  matPc = "done" =>
    \A i \in Pixels :
      data[i].a =
        IF visited[i] = 1 THEN 0
        ELSE IF \E j \in Pixels : Adjacent4(i, j) /\ visited[j] = 1 THEN MaxRGB(i)
        ELSE matInput[i].a

C12_Witness ==
  /\ matPc = "done"
  /\ width = 3
  /\ height = 2
  /\ visited[0] = 1 /\ data[0].a = 0
  /\ visited[1] = 0 /\ data[1].a = 200
  /\ visited[5] = 0 /\ matInput[5].a = 128 /\ data[5].a = 128

\* C13: an image of any width and height whose every pixel is near-black is
\* marked background entirely, and every output pixel has alpha 0.
C13_AllBlackAllTransparent ==
  (Pass1Over /\ \A i \in Pixels : NearBlack(i)) =>
    /\ \A i \in Pixels : visited[i] = 1
    /\ matPc = "done" => \A i \in Pixels : data[i].a = 0

C13_Witness ==
  /\ matPc = "done"
  /\ width = 2
  /\ height = 3
  /\ \A i \in Pixels : matInput[i].r = 20 /\ data[i].a = 0

Ceiling == 99 * 1024
AboutTenth(q, k) == q.k = k
Returned == expResult.blob

\* C15: a returned blob is either at most 99 * 1024 bytes long or the one
\* encoded at the floor quality 0.1; a larger blob encoded at a quality
\* above 0.1 is never returned.
C15_CeilingOrFloorQuality ==
  expResult.tag = "blob" =>
    /\ Returned.size <= Ceiling \/ AboutTenth(Returned.quality, 1)
    /\ ~(Returned.size > Ceiling /\ Returned.quality.k > 1)

\* C16: when the encoder hands back no blob at any attempt, the export
\* fails with the encode error, returns no blob, and encodes no more.
C16_NullBlobFailsExport ==
  \A i \in 1..Len(expBlobs) :
    expBlobs[i].null =>
      /\ i = Len(expBlobs)
      /\ expPc = "rejected"
      /\ expResult.tag = "err"
      /\ expResult.msg = "WebP encoding failed"
      /\ expResult.blob.null

C16_Witness ==
  /\ Len(expBlobs) = 3
  /\ expBlobs[3].null
  /\ ~expBlobs[2].null
  /\ expPc = "rejected"

\* C17: the export never fails: every call completes by returning a blob.
C17_ExportNeverFails == expResult.tag # "err"

\* C17, amended: the export fails when the image does not load, when the
\* canvas has no 2d context, or when the encoder hands back no blob; in
\* every other case it returns the last blob the encoder produced.
C17_FailsOnLoadContextOrEncoder ==
  /\ expPc = "rejected" =>
       /\ expResult.tag = "err"
       /\ expResult.blob.null
       /\ IF expBlobs = <<>>
            THEN expResult.msg \in {"error event", "Canvas context failed"}
            ELSE Last(expBlobs).null /\ expResult.msg = "WebP encoding failed"
  /\ expPc = "resolved" =>
       /\ expResult.tag = "blob"
       /\ expBlobs # <<>>
       /\ Returned = Last(expBlobs)
       /\ ~Returned.null

C17_Witness ==
  /\ expPc = "rejected"
  /\ expBlobs = <<>>
  /\ expResult.msg = "Canvas context failed"

\* ---- processImage, stated on the image and canvas sizes
Longest == 1024
\* r is n / d rounded to the nearest integer, halves up
Nearest(r, n, d) == 2 * r * d - d <= 2 * n /\ 2 * n < 2 * r * d + d

\* C18: the longer side of the output never exceeds 1024; an image whose
\* sides are both at most 1024 keeps its size; otherwise the longer side
\* becomes 1024 and the shorter one round(shorter * 1024 / longer).
C18_LongerSideAtMost1024 ==
  imgPc = "resolved" =>
    /\ Max(canvasW, canvasH) <= Longest
    /\ Max(imgW, imgH) <= Longest => canvasW = imgW /\ canvasH = imgH
    /\ (Max(imgW, imgH) > Longest /\ imgW > imgH) =>
         canvasW = Longest /\ Nearest(canvasH, imgH * Longest, imgW)
    /\ (Max(imgW, imgH) > Longest /\ imgH >= imgW) =>
         canvasH = Longest /\ Nearest(canvasW, imgW * Longest, imgH)

C18_Witness ==
  /\ imgPc = "resolved"
  /\ imgW = 2048
  /\ imgH = 1025
  /\ canvasW = 1024
  /\ canvasH = 513

\* C19: whenever the promise of processImage has settled (resolved,
\* rejected on a decode error, rejected for a missing canvas context), the
\* object URL created for the file has been revoked.
C19_ObjectUrlRevokedOnSettle ==
  imgPc \in {"resolved", "rejected"} => objectUrl = "revoked"

\* ---- validateUserKey
ValidateStep == valPc' # valPc

\* C20: validateUserKey never throws; it answers true exactly when the
\* countTokens request succeeded and false for every failure, a failing
\* client constructor included; it does not read or change the stored user
\* key or the free-generation counter.
C20_ValidateNeverThrows ==
  /\ [](valPc = "settled" =>
          /\ valResult \in {"true", "false"}
          /\ valResult = "true" <=> valOutcome = "ok")
  /\ [][ValidateStep => userKey' = userKey /\ freeCount' = freeCount]_vars

C20_Witness ==
  /\ valPc = "settled"
  /\ valOutcome = "constructor throws"
  /\ valResult = "false"
  /\ userKey = "k1"
  /\ freeCount > 0

\* ---- payloads and attempts
TextOrImageOps == {"create", "edit", "detect", "analyze"}
MaxAttempts == 3

\* C21: when the service answers successfully with no usable image or text,
\* generateSticker, editSticker, detectSubject and analyzeImage fail with an
\* explicit error; none of them returns empty or placeholder data.
C21_EmptyResponseFails ==
  \A p \in Procs :
    (pc[p] = "done" /\ kind[p] \in TextOrImageOps
       /\ cgResult[p].tag = "ok" /\ cgResult[p].payload = "empty") =>
      opResult[p].tag = "err"

\* C22: retryOperation invokes the operation at most 3 times; the first
\* attempt that succeeds ends it with that attempt's result, and no attempt
\* is made once a result or an error has been handed back.
C22_AtMostThreeAttempts ==
  /\ [](\A p \in Procs :
          /\ calls[p] <= MaxAttempts
          /\ cgResult[p].tag = "ok" => calls[p] = Len(errs[p]) + 1)
  /\ [][\A p \in Procs :
          calls'[p] = calls[p] + 1 =>
            /\ pc[p] = "attempt"
            /\ cgResult[p].tag = "none"
            /\ errs'[p] = errs[p] =>
                 /\ cgResult'[p].tag = "ok"
                 /\ pc'[p] \in {"done", "matting"}]_vars

C22_Witness ==
  \E p \in Procs :
    /\ calls[p] = 3
    /\ Len(errs[p]) = 2
    /\ cgResult[p].tag = "ok"

\* ---- seeding
BlackCorners == { i \in CornerPixels : NearBlack(i) }
BlackTenths == { i \in TenthEdgePixels : NearBlack(i) }

\* C23: the fill is seeded from the near-black corners; every 10th pixel of
\* the four edges seeds it exactly when no corner is near-black; when
\* neither gives a seed nothing is marked and every alpha stays as it was.
C23_FallbackIffNoBlackCorner ==
  Pass1Over =>
    /\ BlackCorners # {} => VisitedSet = Flood(BlackCorners)
    /\ BlackCorners = {} => VisitedSet = Flood(BlackTenths)
    /\ (BlackCorners = {} /\ BlackTenths = {}) =>
         /\ VisitedSet = {}
         /\ matPc = "done" => data = matInput

C23_Witness ==
  /\ matPc = "done"
  /\ width = 12
  /\ height = 2
  /\ BlackCorners = {}
  /\ NearBlack(10) /\ NearBlack(5) /\ NearBlack(17)
  /\ VisitedSet = {10}

\* ---- export loop
MostEncodings == 9

\* C24: the encodings of one export run at qualities 0.9, 0.8, ... in steps
\* of 0.1, stop at the first blob of at most 99 * 1024 bytes, are never made
\* at a quality below 0.1, and so number at most 9.
C24_AtMostNineEncodings ==
  /\ Len(expBlobs) <= MostEncodings
  /\ \A i \in 1..Len(expBlobs) :
       /\ ~expBlobs[i].null =>
            /\ AboutTenth(expBlobs[i].quality, 10 - i)
            /\ expBlobs[i].quality.k >= 1
       /\ i < Len(expBlobs) => expBlobs[i].size > Ceiling

\* C25: a step of an orchestrated call changes the stored UserKey only when
\* the call fails with an error classified as an authentication failure; a
\* call that succeeds, fails with a transient error or a "400", "404" or
\* "not found" error, or gets an empty response leaves it as it was.
C25_UserKeyFrame ==
  [][\A p \in Procs :
       (StepOf(p) /\ userKey' # userKey) =>
         /\ errs[p] # <<>>
         /\ AuthMsg(Last(errs[p]))
         /\ cgResult'[p] = Invalid
         /\ userKey' = NoKey]_vars

C25_Witness ==
  \E p \in Procs :
    /\ cgResult[p] = Err({"404"}, "service")
    /\ aiKey[p] = "k1"
    /\ userKey = "k1"

\* C26: an authentication failure is never retried: a call that fails with
\* API_KEY_INVALID invoked the operation exactly once and waited for no
\* backoff delay, whichever of "API key", "403", "PERMISSION_DENIED" and
\* "API_KEY_INVALID" the message contained.
C26_AuthFailureNotRetried ==
  \A p \in Procs :
    cgResult[p] = Invalid => calls[p] = 1 /\ waits[p] = <<>>

\* ---- StickerMaker
Running == { r \in Runs : hgPc[r] # "idle" }

\* C27: a handleGenerate run during which the service rejected the stored
\* key as invalid, with or without a prompt (so with or without the
\* enhancePromptForComedy call), ends with the key modal shown with reason
\* 'invalid'.
C27_RejectedKeyShowsInvalid ==
  [][\A r \in Runs :
       (hgKind[r] = "generate" /\ hgPc[r] # "idle" /\ hgPc'[r] = "idle"
          /\ "API_KEY_INVALID" \in hgLog'[r]) =>
         (showKeyModal' /\ keyModalReason' = "invalid")]_vars

\* C28: at most one generation is in flight: no handleGenerate starts while
\* a handleGenerate or handleEdit is running, from the button or from Enter,
\* so isLoading is false only when nothing is running.
C28_OneGenerationInFlight ==
  /\ Cardinality(Running) <= 1
  /\ ~isLoading => Running = {}

\* ---- flood fill queue
Enqueued == 0..(tail - 1)
MatRunning == matPc \in {"fill", "filled", "done"}

\* C29: during the flood fill every pixel index is enqueued at most once,
\* marked visited before it is enqueued, so 0 <= head <= tail <= totalPixels
\* in every state and no queue slot outside 0..totalPixels-1 is written, for
\* every image size, width 1 and height 1 included.
C29_QueueWithinBounds ==
  MatRunning =>
    /\ 0 <= head
    /\ head <= tail
    /\ tail <= totalPixels
    /\ \A i \in Enqueued : queue[i] \in Pixels /\ visited[queue[i]] = 1
    /\ \A i, j \in Enqueued : i # j => queue[i] # queue[j]
    /\ Cardinality(VisitedSet) = tail

C29_Witness ==
  /\ matPc = "filled"
  /\ width = 1
  /\ height = 4
  /\ head = 4
  /\ tail = totalPixels
  /\ { queue[i] : i \in Enqueued } = Pixels

\* ---- edges of the background
OpaqueInput == \A i \in Pixels : matInput[i].a = 255
EdgePixels ==
  { i \in Pixels : visited[i] = 0 /\ \E j \in Pixels : Adjacent4(i, j) /\ visited[j] = 1 }
\* the least channel maximum of a colour that is not near-black
LeastEdgeAlpha ==
  CHOOSE m \in 0..255 :
    /\ 3 * m * m > TOLERANCE_SQ
    /\ \A k \in 0..(m - 1) : 3 * k * k <= TOLERANCE_SQ

\* C30: for an opaque input, an output pixel has alpha 0 exactly if it was
\* marked background; every marked pixel is near-black, no edge pixel is
\* near-black, and every edge pixel gets alpha max(R, G, B) >= 12, so it is
\* never fully transparent.
C30_TransparentIffBackground ==
  (OpaqueInput /\ Pass1Over) =>
    /\ \A i \in VisitedSet : NearBlack(i)
    /\ \A i \in EdgePixels : ~NearBlack(i) /\ MaxRGB(i) >= 12
    /\ LeastEdgeAlpha = 12
    /\ matPc = "done" =>
         /\ \A i \in Pixels : data[i].a = 0 <=> visited[i] = 1
         /\ \A i \in EdgePixels : data[i].a = MaxRGB(i) /\ data[i].a >= 12

C30_Witness ==
  /\ matPc = "done"
  /\ OpaqueInput
  /\ width = 3
  /\ height = 2
  /\ VisitedSet = {0, 3}
  /\ EdgePixels = {1, 4}
  /\ data[1].a = 12
  /\ data[4].a = 12
  /\ data[2].a = 255
====
